---- MODULE Spec2Model ----
(***************************************************************************)
(* Pipeline state machine and retry orchestration of doc_script:           *)
(* the status table (src/core/database.py), the retry classifier           *)
(* (src/core/error_handler.py), the five stage executors (src/services),   *)
(* and the Celery tasks that drive them (src/tasks/tasks.py).              *)
(***************************************************************************)
EXTENDS Integers, Sequences, FiniteSets, TLC

(***************************************************************************)
(* Bounds of the model.                                                    *)
(***************************************************************************)
\* number of distinct file ids the file API can return
NumFiles == 2
\* worker slots (celery worker --concurrency); start_services.py uses 4
Concurrency == 2
\* environment events allowed in one run.  The first failure of a stage task, a wait
\* timeout and a query count 1; a submit-single, a retry sweep and a lost
\* acknowledgement count 2.
MaxEvents == 4
\* largest number of segments / vectors a collaborator returns
MaxChunks == 1
\* environment events allowed in a run of repeated timeouts and retry sweeps
SweepEvents == 13
\* environment events allowed in a run with the cleanup command
CleanupEvents == 3
\* hours the clock runs
MaxClock == 2
\* older_than_hours the operator passes to the cleanup command (default 24)
RetentionHours == 1
\* largest retry_count passed to the retry classifier
MaxAttempts == 5

(***************************************************************************)
(* Program constants.                                                      *)
(***************************************************************************)
MAX_RETRIES == 3
base_delay == 60
max_delay == 600
\* @celery_app.task(bind=True, max_retries=3)
task_max_retries == 3

Files == 1..NumFiles

Statuses == {"pending", "downloading", "downloaded", "converting", "converted",
             "chunking", "chunked", "vectorizing", "vectorized", "saving",
             "completed", "failed"}

\* the fixed stage order of the status column
StageOrder == <<"pending", "downloading", "downloaded", "converting", "converted",
                "chunking", "chunked", "vectorizing", "vectorized", "saving",
                "completed">>

\* the five stage tasks, in pipeline order
StageTasks == <<"download_file", "convert_document", "chunk_document",
                "vectorize_chunks", "save_data">>

\* status written by stage k before it calls its collaborator
InFlight(k) == StageOrder[2 * k]
\* status written by stage k when its collaborator succeeded
Done(k) == StageOrder[2 * k + 1]

StageOf(task) == CHOOSE k \in 1..5 : StageTasks[k] = task
IsStageTask(task) == \E k \in 1..5 : StageTasks[k] = task

(***************************************************************************)
(* Errors.  An error is an exception type and its message; a message is    *)
(* the sequence of its lower-cased fragments, str(error).lower().          *)
(***************************************************************************)
NoMessage == <<>>

\* does the sequence sub occur contiguously in s ("keyword in error_message")
Contains(s, sub) ==
    \E i \in 0..(Len(s) - Len(sub)) :
        \A j \in 1..Len(sub) : s[i + j] = sub[j]

\* exception classes that are instances of one of retryable_errors
RetryableTypes == {"ConnectionError", "TimeoutError", "RequestException",
                   "requests.ConnectionError", "requests.Timeout",
                   "requests.HTTPError"}

retryable_keywords == {<<"timeout">>, <<"connection">>, <<"network">>,
                       <<"temporary">>, <<"service", "unavailable">>,
                       <<"internal", "server", "error">>, <<"bad", "gateway">>,
                       <<"gateway", "timeout">>}

\* a classifier that allows one attempt more
_should_retry_one_more(error, retry_count) ==
    IF retry_count > MAX_RETRIES THEN FALSE
    ELSE IF error.type \in RetryableTypes THEN TRUE
    ELSE \E keyword \in retryable_keywords : Contains(error.msg, keyword)

\* a classifier that looks at the exception class only
_should_retry_by_type(error, retry_count) ==
    IF retry_count >= MAX_RETRIES THEN FALSE
    ELSE error.type \in RetryableTypes

\* ErrorHandler._should_retry
_should_retry(error, retry_count) ==
    IF retry_count >= MAX_RETRIES THEN FALSE
    ELSE IF error.type \in RetryableTypes THEN TRUE
    ELSE \E keyword \in retryable_keywords : Contains(error.msg, keyword)

RECURSIVE Pow2(_)
Pow2(n) == IF n = 0 THEN 1 ELSE 2 * Pow2(n - 1)

Min(a, b) == IF a <= b THEN a ELSE b

\* exponential backoff without the cap
_uncapped_retry_delay(retry_count) == base_delay * Pow2(retry_count)

\* ErrorHandler._calculate_retry_delay
_calculate_retry_delay(retry_count) ==
    Min(base_delay * Pow2(retry_count), max_delay)

\* failures of the external collaborators (requests, docling, llama-index)
ConnectionRefused == [type |-> "requests.ConnectionError",
                      msg |-> <<"connection", "refused">>]
UnsupportedFormat == [type |-> "Exception", msg |-> <<"unsupported", "format">>]
CollaboratorErrors == {ConnectionRefused, UnsupportedFormat}

\* an executor that raises Exception() without a text
WrappedEmpty(k, e) == [type |-> "Exception", msg |-> NoMessage]

\* raise Exception(f"<step>失败: {str(e)}") in the except blocks of the services
Wrapped(k, e) == [type |-> "Exception", msg |-> <<"stage", "failed">> \o e.msg]

\* celery.exceptions.TimeoutError raised by AsyncResult.get(timeout=600)
GetTimeout == [type |-> "celery.TimeoutError",
               msg |-> <<"the", "operation", "timed", "out">>]
\* raise Exception(f"...失败: {file_id}") in process_single_file
StepFailed == [type |-> "Exception", msg |-> <<"step", "failed", "file_id">>]

(***************************************************************************)
(* State.                                                                  *)
(***************************************************************************)
VARIABLES
    db,         \* file_processing_status: file_id -> row, for the ids that have a row
    logs,       \* processing_logs: file_id -> sequence of log levels
    chunks,     \* outputs/chunks/<file_id>_chunks.json: number of chunks, -1 if no file
    queue,      \* task messages in the broker
    running,    \* task executions that hold a worker slot
    results,    \* task ids whose result is ready in the result backend
    submitted,  \* per file: number of process_single_file submissions so far
    api,        \* file ids the file API (URL1) lists
    budget,     \* number of environment events still allowed in this run
    last,       \* what the last step did to the status table and the log
    now,        \* datetime.utcnow(), in hours
    disk,       \* per file: which of the download and markdown files exist
    reactivated,\* per file: how often retry_failed_files reset it to pending
    probe       \* the last direct call of the retry classifier and its answers

vars == <<db, logs, chunks, queue, running, results, submitted, api, budget, last,
          now, disk, reactivated, probe>>

\* a row of file_processing_status as add_file creates it
NewRow == [status |-> "pending", retry_count |-> 0, error_message |-> NoMessage,
           download_path |-> FALSE, markdown_path |-> FALSE,
           chunk_count |-> 0, vector_count |-> 0, updated_at |-> now]

\* an update_status that stores the error message but does not count it
update_status_no_count(d, file_id, status, error_message, fields) ==
    IF file_id \in DOMAIN d
    THEN LET row == d[file_id]
             r1 == [row EXCEPT !.status = status, !.updated_at = now]
             r2 == IF error_message # NoMessage
                   THEN [r1 EXCEPT !.error_message = error_message]
                   ELSE r1
             r3 == [key \in DOMAIN r2 |->
                      IF key \in DOMAIN fields THEN fields[key] ELSE r2[key]]
         IN  [d EXCEPT ![file_id] = r3]
    ELSE d

\* an update_status that creates the row when there is none
update_status_upsert(d, file_id, status, error_message, fields) ==
    LET row == IF file_id \in DOMAIN d THEN d[file_id] ELSE NewRow
        r1 == [row EXCEPT !.status = status, !.updated_at = now]
        r2 == IF error_message # NoMessage
              THEN [r1 EXCEPT !.error_message = error_message,
                              !.retry_count = row.retry_count + 1]
              ELSE r1
        r3 == [key \in DOMAIN r2 |->
                 IF key \in DOMAIN fields THEN fields[key] ELSE r2[key]]
    IN  [f \in DOMAIN d \cup {file_id} |-> IF f = file_id THEN r3 ELSE d[f]]

\* an update_status that counts every call as an attempt
update_status_every_call(d, file_id, status, error_message, fields) ==
    IF file_id \in DOMAIN d
    THEN LET row == d[file_id]
             r1 == [row EXCEPT !.status = status, !.updated_at = now,
                               !.retry_count = row.retry_count + 1]
             r2 == IF error_message # NoMessage
                   THEN [r1 EXCEPT !.error_message = error_message]
                   ELSE r1
             r3 == [key \in DOMAIN r2 |->
                      IF key \in DOMAIN fields THEN fields[key] ELSE r2[key]]
         IN  [d EXCEPT ![file_id] = r3]
    ELSE d

\* DatabaseManager.update_status: the table after the call
update_status(d, file_id, status, error_message, fields) ==
    IF file_id \in DOMAIN d
    THEN LET row == d[file_id]
             r1 == [row EXCEPT !.status = status, !.updated_at = now]
             r2 == IF error_message # NoMessage
                   THEN [r1 EXCEPT !.error_message = error_message,
                                   !.retry_count = row.retry_count + 1]
                   ELSE r1
             r3 == [key \in DOMAIN r2 |->
                      IF key \in DOMAIN fields THEN fields[key] ELSE r2[key]]
         IN  [d EXCEPT ![file_id] = r3]
    ELSE d

\* DatabaseManager.update_status: the value it returns
update_status_ok(d, file_id) == file_id \in DOMAIN d

\* an update_status whose except block only re-raises: the session keeps
\* the modified row
update_status_no_rollback(d, file_id, status, error_message, fields, commit_ok) ==
    [db |-> update_status(d, file_id, status, error_message, fields),
     raised |-> file_id \in DOMAIN d /\ ~commit_ok]

\* DatabaseManager.update_status with the outcome of session.commit():
\* the table the session shows after the call, and whether the call raised.
\* commit() is reached only when the row exists; when it raises, the except
\* block rolls the session back and raises the error again.
update_status_commit(d, file_id, status, error_message, fields, commit_ok) ==
    IF file_id \in DOMAIN d /\ ~commit_ok
    THEN [db |-> d, raised |-> TRUE]
    ELSE [db |-> update_status(d, file_id, status, error_message, fields),
          raised |-> FALSE]

\* an add_log that keeps only the newest entry of a file
add_log_latest_only(l, file_id, log_level) ==
    [l EXCEPT ![file_id] = <<log_level>>]

\* DatabaseManager.add_log: the log table after the call
add_log(l, file_id, log_level) ==
    [l EXCEPT ![file_id] = Append(@, log_level)]

NoFields == [x \in {} |-> 0]

\* log key of the entries that belong to no file: add_log("system", ...)
SystemId == 0

(***************************************************************************)
(* Task messages and executions.                                           *)
(***************************************************************************)
\* id of a process_single_file task: the inst-th submission for the file
PipelineId(f, inst) == [file |-> f, inst |-> inst, ptry |-> 0, stage |-> 0]
\* id of the stage task that pipeline execution e dispatches for stage k
StageId(e, k) == [file |-> e.file, inst |-> e.id.inst, ptry |-> e.retries, stage |-> k]
NoId == [file |-> 0, inst |-> 0, ptry |-> 0, stage |-> 0]

\* task.delay(...): the message put on the broker
Message(task, f, id, arg) ==
    [task |-> task, file |-> f, id |-> id, arg |-> arg,
     retries |-> 0, countdown |-> 0, delivery |-> 0]

\* Values passed to a task as its data argument: kind tells what the value
\* is, n how many elements it has.
\* no data argument (process_single_file, download_file), or a column of the
\* row that the model does not follow (convert_document, chunk_document)
NoArg == [kind |-> "none", n |-> 0]
\* Python's None
None == [kind |-> "None", n |-> 0]
\* the list of vectorized chunks that Vectorizer.vectorize_chunks returns
Vectors(n) == [kind |-> "vectors", n |-> n]

\* DocumentChunker.get_chunks_from_file: the list of chunks in the chunks
\* file of the file, None without that file
get_chunks_from_file(ch, file_id) ==
    IF ch[file_id] < 0 THEN None ELSE [kind |-> "chunks", n |-> ch[file_id]]

\* Vectorizer.get_vectorization_info: a dict of the row's counts and times,
\* None without a row or with vector_count = 0
get_vectorization_info(d, file_id) ==
    IF file_id \in DOMAIN d /\ d[file_id].vector_count > 0
    THEN [kind |-> "info", n |-> d[file_id].vector_count]
    ELSE None

\* self.retry(countdown=...): same task id, request.retries + 1
RetryMessage(e, countdown) ==
    [task |-> e.task, file |-> e.file, id |-> e.id, arg |-> e.arg,
     retries |-> e.retries + 1, countdown |-> countdown, delivery |-> e.delivery]

\* the message of e delivered once more (task_acks_late, acknowledgement lost)
Redelivered(e) ==
    [task |-> e.task, file |-> e.file, id |-> e.id, arg |-> e.arg,
     retries |-> e.retries, countdown |-> 0, delivery |-> e.delivery + 1]

\* a worker slot executing message m
Execution(m) ==
    [task |-> m.task, file |-> m.file, id |-> m.id, arg |-> m.arg,
     retries |-> m.retries, delivery |-> m.delivery,
     pc |-> "begin", step |-> 0, wait |-> NoId]

NoOp == [op |-> "none", file |-> 0, updates |-> 0, tlogs |-> 0]

\* no direct call of the classifier yet
NoProbe == [error |-> [type |-> "none", msg |-> NoMessage], retry_count |-> 0,
            should_retry |-> FALSE, retry_delay |-> 0]

\* the empty tables, no task anywhere
Start ==
    /\ db = [f \in {} |-> NewRow]
    /\ logs = [f \in Files \cup {SystemId} |-> <<>>]
    /\ chunks = [f \in Files |-> -1]
    /\ queue = {}
    /\ running = {}
    /\ results = {}
    /\ submitted = [f \in Files |-> 0]
    /\ last = NoOp
    /\ now = 0
    /\ disk = [f \in Files |-> {}]
    /\ reactivated = [f \in Files |-> 0]
    /\ probe = NoProbe

\* one file on the API, and the environment events of the bound
Init ==
    /\ Start
    /\ api = {1}
    /\ budget = MaxEvents

(***************************************************************************)
(* Operator commands (scripts/main.py).                                    *)
(***************************************************************************)
\* FileOperations.query_files: add a row for every returned file that has none
AddFiles(d, S) ==
    [f \in DOMAIN d \cup S |-> IF f \in DOMAIN d THEN d[f] ELSE NewRow]

\* DocumentProcessor.query_and_process_files: the query_files task, then one
\* process_single_file task for every pending row
query_and_process_files(S) ==
    /\ S # {}
    /\ S \subseteq api
    /\ budget > 0
    /\ Cardinality(running) < Concurrency
    /\ LET d1 == AddFiles(db, S)
           pending_files == {f \in DOMAIN d1 : d1[f].status = "pending"}
       IN  /\ db' = d1
           /\ logs' = [logs EXCEPT ![SystemId] = @ \o <<"INFO", "INFO">>]
           /\ queue' = queue \cup
                  {Message("process_single_file", f, PipelineId(f, submitted[f] + 1), NoArg)
                     : f \in pending_files}
           /\ submitted' = [f \in Files |->
                  IF f \in pending_files THEN submitted[f] + 1 ELSE submitted[f]]
    /\ budget' = budget - 1
    /\ last' = [NoOp EXCEPT !.op = "query_and_process_files"]
    /\ UNCHANGED <<chunks, running, results, api, now, disk, reactivated, probe>>

\* DocumentProcessor.process_single_file_by_id: process_single_file.delay(file_id)
process_single_file_by_id(f) ==
    /\ budget > 1
    /\ queue' = queue \cup
           {Message("process_single_file", f, PipelineId(f, submitted[f] + 1), NoArg)}
    /\ submitted' = [submitted EXCEPT ![f] = @ + 1]
    /\ budget' = budget - 2
    /\ last' = [NoOp EXCEPT !.op = "process_single_file_by_id", !.file = f]
    /\ UNCHANGED <<db, logs, chunks, running, results, api, now, disk, reactivated, probe>>

(***************************************************************************)
(* The worker.                                                             *)
(***************************************************************************)
\* a free worker slot takes a message from the broker
StartTask(m) ==
    /\ m \in queue
    /\ Cardinality(running) < Concurrency
    /\ queue' = queue \ {m}
    /\ running' = running \cup {Execution(m)}
    /\ last' = [NoOp EXCEPT !.op = "start", !.file = m.file]
    /\ UNCHANGED <<db, logs, chunks, results, submitted, api, now, disk, reactivated, probe, budget>>

(***************************************************************************)
(* Failure handling.                                                       *)
(***************************************************************************)
\* ErrorHandler.handle_task_error: log the error, classify it and, when it is
\* not to be retried, mark the file failed.  Yields the table, the log, the
\* decision and the delay.
handle_task_error(d, l, error, file_id, retry_count) ==
    LET should_retry == _should_retry(error, retry_count)
    IN  [db |-> IF should_retry THEN d
                ELSE update_status(d, file_id, "failed", error.msg, NoFields),
         logs |-> add_log(l, file_id, "ERROR"),
         should_retry |-> should_retry,
         retry_delay |-> IF should_retry THEN _calculate_retry_delay(retry_count) ELSE 60,
         updates |-> IF ~should_retry /\ update_status_ok(d, file_id) THEN 1 ELSE 0]

\* a task whose except block calls self.retry for every error
TaskFailedAlwaysRetries(e, error, d, l, n, t) ==
    LET h == handle_task_error(d, l, error, e.file, e.retries)
    IN  /\ db' = h.db
        /\ logs' = h.logs
        /\ queue' = queue \cup {RetryMessage(e, h.retry_delay)}
        /\ results' = results
        /\ running' = running \ {e}
        /\ last' = [op |-> "task_failed", file |-> e.file,
                    updates |-> n + h.updates, tlogs |-> t + h.updates]

\* the except block of a task: handle_task_error, then self.retry or the
\* failure result.  d and l are the table and the log when the exception
\* reaches the task; n and t count the update_status calls that succeeded and
\* the log entries written for them before that.
TaskFailed(e, error, d, l, n, t) ==
    LET h == handle_task_error(d, l, error, e.file, e.retries)
    IN  /\ db' = h.db
        /\ logs' = h.logs
        /\ IF h.should_retry /\ e.retries < task_max_retries
           THEN /\ queue' = queue \cup {RetryMessage(e, h.retry_delay)}
                /\ results' = results
           ELSE /\ queue' = queue
                /\ results' = results \cup {e.id}
        /\ running' = running \ {e}
        /\ last' = [op |-> "task_failed", file |-> e.file,
                    updates |-> n + h.updates, tlogs |-> t + h.updates]

\* the except block of a stage executor (FileOperations.download_file, ...):
\* mark the file failed, log, raise Exception(error_msg); then the task's
\* except block
ExecutorFailed(e, error, d, l, n, t) ==
    LET w == Wrapped(StageOf(e.task), error)
        ok == update_status_ok(d, e.file)
    IN  TaskFailed(e, w,
                   update_status(d, e.file, "failed", w.msg, NoFields),
                   add_log(l, e.file, "ERROR"),
                   n + (IF ok THEN 1 ELSE 0), t + (IF ok THEN 1 ELSE 0))

\* raise Exception(f"文件状态不存在: {file_id}")
NoStatusRow == [type |-> "Exception", msg |-> <<"no", "status", "row", "file_id">>]
\* TypeError of len(None), AttributeError of None.status
NoneTypeError == [type |-> "TypeError", msg |-> <<"nonetype", "object">>]

(***************************************************************************)
(* Stage tasks (download_file ... save_data) and their executors.          *)
(***************************************************************************)
\* an executor that logs its start and calls the collaborator without
\* writing the in-flight status
ExecutorStartsUnclaimed(e) ==
    LET k == StageOf(e.task)
        ok == update_status_ok(db, e.file)
        n == 0
        d1 == db
        l1 == add_log(logs, e.file, "INFO")
    IN  /\ IsStageTask(e.task)
        /\ e.pc = "begin"
        /\ IF k = 1 /\ ~ok
           THEN \* download_file: get_file_status returned None
                /\ ExecutorFailed(e, NoStatusRow, d1, l1, n, n)
                /\ UNCHANGED <<chunks, submitted, api, now, disk, reactivated, probe, budget>>
           ELSE IF k = 5 /\ e.arg = None
           THEN \* save_data: len(vectorized_chunks) of None, before add_log
                /\ ExecutorFailed(e, NoneTypeError, d1, logs, n, 0)
                /\ UNCHANGED <<chunks, submitted, api, now, disk, reactivated, probe, budget>>
           ELSE /\ db' = d1
                /\ logs' = l1
                /\ running' = (running \ {e}) \cup {[e EXCEPT !.pc = "run"]}
                /\ last' = [op |-> "claim", file |-> e.file, updates |-> n, tlogs |-> n]
                /\ UNCHANGED <<chunks, queue, results, submitted, api, now, disk, reactivated, probe, budget>>

\* the executor up to its collaborator call: write the in-flight status and
\* log the start
ExecutorClaim(e) ==
    LET k == StageOf(e.task)
        ok == update_status_ok(db, e.file)
        n == IF ok THEN 1 ELSE 0
        d1 == update_status(db, e.file, InFlight(k), NoMessage, NoFields)
        l1 == add_log(logs, e.file, "INFO")
    IN  /\ IsStageTask(e.task)
        /\ e.pc = "begin"
        /\ IF k = 1 /\ ~ok
           THEN \* download_file: get_file_status returned None
                /\ ExecutorFailed(e, NoStatusRow, d1, l1, n, n)
                /\ UNCHANGED <<chunks, submitted, api, now, disk, reactivated, probe, budget>>
           ELSE IF k = 5 /\ e.arg = None
           THEN \* save_data: len(vectorized_chunks) of None, before add_log
                /\ ExecutorFailed(e, NoneTypeError, d1, logs, n, 0)
                /\ UNCHANGED <<chunks, submitted, api, now, disk, reactivated, probe, budget>>
           ELSE /\ db' = d1
                /\ logs' = l1
                /\ running' = (running \ {e}) \cup {[e EXCEPT !.pc = "run"]}
                /\ last' = [op |-> "claim", file |-> e.file, updates |-> n, tlogs |-> n]
                /\ UNCHANGED <<chunks, queue, results, submitted, api, now, disk, reactivated, probe, budget>>

\* fields the executor of stage k stores with the done status; out is the
\* number of chunks or vectors the collaborator returned
DoneFields(k, out) ==
    IF k = 1 THEN [download_path |-> TRUE]
    ELSE IF k = 2 THEN [markdown_path |-> TRUE]
    ELSE IF k = 3 THEN [chunk_count |-> out]
    ELSE IF k = 4 THEN [vector_count |-> out]
    ELSE NoFields

\* the collaborator returned: write the artifact, the done status and the
\* log; the task returns its result.  acked = FALSE: the worker is lost
\* after the result is stored and before the late acknowledgement, so the
\* broker delivers the message again.
ExecutorSucceeded(e, out, acked) ==
    LET k == StageOf(e.task)
        ok == update_status_ok(db, e.file)
        n == IF ok THEN 1 ELSE 0
        l0 == IF k = 4 /\ e.arg.n > 0 THEN add_log(logs, e.file, "INFO") ELSE logs
    IN  /\ IsStageTask(e.task)
        /\ e.pc = "run"
        /\ k \in {3, 4} \/ out = 0
        /\ acked \/ budget > 1
        /\ db' = update_status(db, e.file, Done(k), NoMessage, DoneFields(k, out))
        /\ logs' = add_log(l0, e.file, "INFO")
        /\ chunks' = IF k = 3 THEN [chunks EXCEPT ![e.file] = out] ELSE chunks
        /\ disk' = IF k = 1 THEN [disk EXCEPT ![e.file] = @ \cup {"download"}]
                   ELSE IF k = 2 THEN [disk EXCEPT ![e.file] = @ \cup {"markdown"}]
                   ELSE disk
        /\ results' = results \cup {e.id}
        /\ running' = running \ {e}
        /\ queue' = IF acked THEN queue ELSE queue \cup {Redelivered(e)}
        /\ budget' = IF acked THEN budget ELSE budget - 2
        /\ last' = [op |-> IF e.delivery > 0 THEN "done_again" ELSE "done",
                    file |-> e.file, updates |-> n, tlogs |-> n]
        /\ UNCHANGED <<submitted, api, now, reactivated, probe>>

\* the collaborator raised
CollaboratorFailed(e, error) ==
    /\ IsStageTask(e.task)
    /\ e.pc = "run"
    /\ e.retries > 0 \/ budget > 0
    /\ ExecutorFailed(e, error, db, logs, 0, 0)
    /\ budget' = IF e.retries > 0 THEN budget ELSE budget - 1
    /\ UNCHANGED <<chunks, submitted, api, now, disk, reactivated, probe>>

(***************************************************************************)
(* The pipeline task process_single_file.                                  *)
(***************************************************************************)
\* stage_task.delay(...) followed by result.get(timeout=600): the pipeline
\* keeps its worker slot and waits for the result of the stage task
DispatchAndWait(e, k, arg) ==
    /\ queue' = queue \cup {Message(StageTasks[k], e.file, StageId(e, k), arg)}
    /\ running' = (running \ {e}) \cup
           {[e EXCEPT !.pc = "wait", !.step = k, !.wait = StageId(e, k)]}
    /\ last' = [NoOp EXCEPT !.op = "dispatch", !.file = e.file]
    /\ UNCHANGED <<db, logs, results>>

\* a pipeline that returns success after the wait for save_data without
\* reading the row again
AfterStageUnchecked(e, k) ==
    IF e.file \notin DOMAIN db
    THEN TaskFailed(e, NoneTypeError, db, logs, 0, 0)
    ELSE IF k # 5 /\ db[e.file].status # Done(k)
    THEN TaskFailed(e, StepFailed, db, logs, 0, 0)
    ELSE IF k = 5
    THEN /\ results' = results \cup {e.id}
         /\ running' = running \ {e}
         /\ last' = [NoOp EXCEPT !.op = "pipeline_done", !.file = e.file]
         /\ UNCHANGED <<db, logs, queue>>
    ELSE IF k = 3
    THEN \* chunks = doc_chunker.get_chunks_from_file(file_id)
         IF chunks[e.file] <= 0
         THEN TaskFailed(e, StepFailed, db, logs, 0, 0)
         ELSE DispatchAndWait(e, 4, get_chunks_from_file(chunks, e.file))
    ELSE IF k = 4
    THEN DispatchAndWait(e, 5, get_vectorization_info(db, e.file))
    ELSE DispatchAndWait(e, k + 1, NoArg)

\* the code after the wait for stage k: re-read the row, require the done
\* status of stage k, then dispatch stage k + 1 or return success
AfterStage(e, k) ==
    IF e.file \notin DOMAIN db
    THEN TaskFailed(e, NoneTypeError, db, logs, 0, 0)
    ELSE IF db[e.file].status # Done(k)
    THEN TaskFailed(e, StepFailed, db, logs, 0, 0)
    ELSE IF k = 5
    THEN /\ results' = results \cup {e.id}
         /\ running' = running \ {e}
         /\ last' = [NoOp EXCEPT !.op = "pipeline_done", !.file = e.file]
         /\ UNCHANGED <<db, logs, queue>>
    ELSE IF k = 3
    THEN \* chunks = doc_chunker.get_chunks_from_file(file_id)
         IF chunks[e.file] <= 0
         THEN TaskFailed(e, StepFailed, db, logs, 0, 0)
         ELSE DispatchAndWait(e, 4, get_chunks_from_file(chunks, e.file))
    ELSE IF k = 4
    THEN DispatchAndWait(e, 5, get_vectorization_info(db, e.file))
    ELSE DispatchAndWait(e, k + 1, NoArg)

\* process_single_file up to its first wait
PipelineBegin(e) ==
    /\ e.task = "process_single_file"
    /\ e.pc = "begin"
    /\ IF e.file \notin DOMAIN db
       THEN TaskFailed(e, NoStatusRow, db, logs, 0, 0)
       ELSE IF db[e.file].status = "pending"
       THEN DispatchAndWait(e, 1, NoArg)
       ELSE AfterStage(e, 1)
    /\ UNCHANGED <<chunks, submitted, api, now, disk, reactivated, probe, budget>>

\* result.get returns: the awaited stage task has stored its result
PipelineResume(e) ==
    /\ e.task = "process_single_file"
    /\ e.pc = "wait"
    /\ e.wait \in results
    /\ AfterStage(e, e.step)
    /\ UNCHANGED <<chunks, submitted, api, now, disk, reactivated, probe, budget>>

\* result.get(timeout=600) raises: no result within 600 seconds
PipelineTimeout(e) ==
    /\ e.task = "process_single_file"
    /\ e.pc = "wait"
    /\ e.wait \notin results
    /\ budget > 0
    /\ TaskFailed(e, GetTimeout, db, logs, 0, 0)
    /\ budget' = budget - 1
    /\ UNCHANGED <<chunks, submitted, api, now, disk, reactivated, probe>>

(***************************************************************************)
(* The retry sweep.                                                        *)
(***************************************************************************)
\* a sweep that ignores max_retry_count and resets every failed row
retry_all_failed(max_retry_count) ==
    /\ budget > 1
    /\ Cardinality(running) < Concurrency
    /\ LET retried == {f \in DOMAIN db : db[f].status = "failed"}
       IN  /\ db' = [f \in DOMAIN db |->
                       IF f \in retried
                       THEN update_status(db, f, "pending", NoMessage, NoFields)[f]
                       ELSE db[f]]
           /\ queue' = queue \cup
                  {Message("process_single_file", f, PipelineId(f, submitted[f] + 1), NoArg)
                     : f \in retried}
           /\ submitted' = [f \in Files |->
                  IF f \in retried THEN submitted[f] + 1 ELSE submitted[f]]
           /\ reactivated' = [f \in Files |->
                  IF f \in retried THEN reactivated[f] + 1 ELSE reactivated[f]]
           /\ last' = [op |-> "retry_failed_files",
                       file |-> IF retried = {} THEN 0 ELSE CHOOSE f \in retried : TRUE,
                       updates |-> IF retried = {} THEN 0 ELSE 1, tlogs |-> 0]
    /\ budget' = budget - 2
    /\ UNCHANGED <<logs, chunks, running, results, api, now, disk, probe>>

\* retry_failed_files: every failed row with retry_count < max_retry_count
\* is set to pending and submitted again
retry_failed_files(max_retry_count) ==
    /\ budget > 1
    /\ Cardinality(running) < Concurrency
    /\ LET failed_files == {f \in DOMAIN db : db[f].status = "failed"}
           retried == {f \in failed_files : db[f].retry_count < max_retry_count}
       IN  /\ db' = [f \in DOMAIN db |->
                       IF f \in retried
                       THEN update_status(db, f, "pending", NoMessage, NoFields)[f]
                       ELSE db[f]]
           /\ queue' = queue \cup
                  {Message("process_single_file", f, PipelineId(f, submitted[f] + 1), NoArg)
                     : f \in retried}
           /\ submitted' = [f \in Files |->
                  IF f \in retried THEN submitted[f] + 1 ELSE submitted[f]]
           /\ reactivated' = [f \in Files |->
                  IF f \in retried THEN reactivated[f] + 1 ELSE reactivated[f]]
           /\ last' = [op |-> "retry_failed_files",
                       file |-> IF retried = {} THEN 0 ELSE CHOOSE f \in retried : TRUE,
                       updates |-> IF retried = {} THEN 0 ELSE 1, tlogs |-> 0]
    /\ budget' = budget - 2
    /\ UNCHANGED <<logs, chunks, running, results, api, now, disk, probe>>

\* values of max_retry_count the operator passes (default 3)
SweepLimits == {1, 3}

Next ==
    \/ \E S \in SUBSET Files : query_and_process_files(S)
    \/ \E f \in Files : process_single_file_by_id(f)
    \/ \E m \in queue : StartTask(m)
    \/ \E e \in running : ExecutorClaim(e)
    \/ \E e \in running, out \in 0..MaxChunks, acked \in BOOLEAN :
           ExecutorSucceeded(e, out, acked)
    \/ \E e \in running, error \in CollaboratorErrors : CollaboratorFailed(e, error)
    \/ \E e \in running : PipelineBegin(e)
    \/ \E e \in running : PipelineResume(e)
    \/ \E e \in running : PipelineTimeout(e)
    \/ \E n \in SweepLimits : retry_failed_files(n)

Spec == Init /\ [][Next]_vars

TypeOK ==
    /\ \A f \in DOMAIN db : db[f].status \in Statuses /\ db[f].retry_count \in Nat
    /\ Cardinality(running) <= Concurrency

(***************************************************************************)
(* Properties.                                                             *)
(***************************************************************************)
\* position of a status in the fixed stage order (0 for failed)
Position(status) ==
    IF status = "failed" THEN 0
    ELSE CHOOSE i \in 1..Len(StageOrder) : StageOrder[i] = status

\* ids that have a row before and after the step
Kept == DOMAIN db \cap DOMAIN db'

\* C1: every change of a stored status goes to the immediate successor in the
\* stage order, or from a non-terminal status to failed, or - by the retry
\* sweep only - from failed to pending.
C1_StageOrderOnly ==
    [][\A f \in Kept :
          db'[f].status # db[f].status =>
             \/ /\ db[f].status # "failed"
                /\ db'[f].status # "failed"
                /\ Position(db'[f].status) = Position(db[f].status) + 1
             \/ /\ db'[f].status = "failed"
                /\ db[f].status \notin {"completed", "failed"}
             \/ /\ db[f].status = "failed"
                /\ db'[f].status = "pending"
                /\ last'.op = "retry_failed_files"]_vars

\* C3: a stage task that fails with a connection error on its fourth
\* consecutive execution (request.retries = 3) leaves the file failed with
\* retry_count = 3.
C3_RetryBound ==
    [][\A e \in running :
          (e.retries = MAX_RETRIES /\ e.file \in DOMAIN db
             /\ CollaboratorFailed(e, ConnectionRefused)) =>
             /\ db'[e.file].status = "failed"
             /\ db'[e.file].retry_count = MAX_RETRIES]_vars

\* C4: a completed file has retry_count = 0.
C4_CompletedHasNoAttempts ==
    \A f \in DOMAIN db : db[f].status = "completed" => db[f].retry_count = 0

\* C5: one failed execution of a stage task increases retry_count by
\* exactly 1.
C5_OneFailureOneAttempt ==
    [][\A e \in running, error \in CollaboratorErrors :
          (e.file \in DOMAIN db /\ CollaboratorFailed(e, error)) =>
             db'[e.file].retry_count = db[e.file].retry_count + 1]_vars

\* C6: while a retry of a stage task is scheduled (the classifier answered
\* should_retry = true), the file is not failed.
C6_NotFailedWhileRetryPending ==
    \A m \in queue :
        (IsStageTask(m.task) /\ m.retries > 0 /\ m.file \in DOMAIN db) =>
            db[m.file].status # "failed"

\* C7: a completed file keeps the status completed.
C7_CompletedIsFinal ==
    [][\A f \in Kept :
          db[f].status = "completed" => db'[f].status = "completed"]_vars

\* C8: a failed file keeps the status failed, except that the retry sweep
\* sets it to pending.
C8_FailedIsFinal ==
    [][\A f \in Kept :
          db[f].status = "failed" =>
             \/ db'[f].status = "failed"
             \/ db'[f].status = "pending" /\ last'.op = "retry_failed_files"]_vars

\* C9: of two executions of the same stage for the same file, at most one
\* gets past the claim and runs the collaborator.
C9_OneClaimWins ==
    \A e1 \in running, e2 \in running :
        (e1 # e2 /\ IsStageTask(e1.task) /\ e1.task = e2.task /\ e1.file = e2.file) =>
            ~(e1.pc = "run" /\ e2.pc = "run")

\* C10: a step that commits n status updates of a file appends exactly n log
\* entries for them.
C10_OneLogPerTransition ==
    [][last'.updates = last'.tlogs]_vars

(***************************************************************************)
(* The worker pool without faults: every collaborator succeeds with a      *)
(* non-empty result, every acknowledgement arrives, and a wait only times  *)
(* out when no worker can ever run the awaited task.                       *)
(***************************************************************************)
\* the collaborator of a stage task returned a non-empty result
CollaboratorReturned(e) ==
    \E out \in 0..MaxChunks :
        /\ IsStageTask(e.task)
        /\ (StageOf(e.task) \in {3, 4}) => out > 0
        /\ ExecutorSucceeded(e, out, TRUE)

\* every worker slot is held by a pipeline that waits for a stage task
\* which is still in the broker
PoolExhausted ==
    /\ Cardinality(running) = Concurrency
    /\ \A e \in running :
          /\ e.task = "process_single_file"
          /\ e.pc = "wait"
          /\ \E m \in queue : m.id = e.wait

\* result.get(timeout=600) raises because the pool is exhausted: nothing
\* else can happen until one of the waits gives up
PipelineStarved(e) ==
    /\ e.task = "process_single_file"
    /\ e.pc = "wait"
    /\ PoolExhausted
    /\ TaskFailed(e, GetTimeout, db, logs, 0, 0)
    /\ UNCHANGED <<chunks, submitted, api, now, disk, reactivated, probe, budget>>

\* the API lists every file; the operator runs the query command once
InitPool ==
    /\ Start
    /\ api = Files
    /\ budget = 1

NextPool ==
    \/ \E S \in SUBSET Files : query_and_process_files(S)
    \/ \E m \in queue : StartTask(m)
    \/ \E e \in running : ExecutorClaim(e)
    \/ \E e \in running : CollaboratorReturned(e)
    \/ \E e \in running : PipelineBegin(e)
    \/ \E e \in running : PipelineResume(e)
    \/ \E e \in running : PipelineStarved(e)

\* the worker takes every step it can
PoolSpec == InitPool /\ [][NextPool]_vars /\ WF_vars(NextPool)

\* nothing is queued and nothing runs
Quiescent == queue = {} /\ running = {}

\* C2: when every collaborator succeeds, every submitted file ends
\* completed: once all tasks are through, no file is left short of it.
C2_AllSubmittedComplete ==
    (Quiescent /\ budget = 0) =>
        \A f \in DOMAIN db : db[f].status = "completed"

(***************************************************************************)
(* One transient failure of the convert stage: the operator queries while  *)
(* the worker is idle and submits fewer files than there are worker slots; *)
(* the only fault is a refused connection in the first execution of        *)
(* convert_document.                                                       *)
(***************************************************************************)
\* the query command, run while the worker is idle, leaving a slot free
IdleQuery(S) ==
    /\ Quiescent
    /\ Cardinality({f \in DOMAIN db \cup S :
                      f \in DOMAIN db => db[f].status = "pending"}) < Concurrency
    /\ query_and_process_files(S)

\* docling's request is refused in the first execution of convert_document
ConvertFailsOnce(e) ==
    /\ IsStageTask(e.task)
    /\ StageOf(e.task) = 2
    /\ e.retries = 0
    /\ CollaboratorFailed(e, ConnectionRefused)

InitScenario ==
    /\ Start
    /\ api = Files
    /\ budget = MaxEvents

NextScenario ==
    \/ \E S \in SUBSET Files : IdleQuery(S)
    \/ \E m \in queue : StartTask(m)
    \/ \E e \in running : ExecutorClaim(e)
    \/ \E e \in running : CollaboratorReturned(e)
    \/ \E e \in running : ConvertFailsOnce(e)
    \/ \E e \in running : PipelineBegin(e)
    \/ \E e \in running : PipelineResume(e)

\* the worker takes every step it can
ScenarioSpec == InitScenario /\ [][NextScenario]_vars /\ WF_vars(NextScenario)

\* C11: when convert fails once with a refused connection, the failure is
\* classified retryable and convert is dispatched again with a delay of 60
\* seconds, no task is retried a second time, and the file goes on to
\* completed.
C11_RetriedOnceThenCompleted ==
    /\ [][\A e \in running :
            ConvertFailsOnce(e) =>
               /\ queue' = queue \cup {RetryMessage(e, 60)}
               /\ e.id \notin results']_vars
    /\ [](\A m \in queue : m.retries <= 1)
    /\ \A f \in Files :
          (f \in DOMAIN db /\ db[f].retry_count > 0) ~>
              (f \in DOMAIN db /\ db[f].status = "completed")

\* a file is completed after its convert stage failed once
C11_Witness ==
    \E f \in DOMAIN db : db[f].status = "completed" /\ db[f].retry_count = 1

(***************************************************************************)
(* The retry sweep.                                                        *)
(***************************************************************************)
\* the pipeline tasks a step puts on the broker for file f
NewPipelines(f) ==
    {m \in queue' \ queue : m.task = "process_single_file" /\ m.file = f}

\* C12: retry_failed_files(max_retry_count) sets every failed row with
\* retry_count < max_retry_count to pending with retry_count 0 and submits
\* one process_single_file task for it.
C12_SweepResets ==
    [][\A n \in SweepLimits :
          retry_failed_files(n) =>
             \A f \in DOMAIN db :
                (db[f].status = "failed" /\ db[f].retry_count < n) =>
                   /\ db'[f].status = "pending"
                   /\ db'[f].retry_count = 0
                   /\ Cardinality(NewPipelines(f)) = 1]_vars

\* C13: retry_failed_files(max_retry_count) leaves every row that is not
\* failed, and every failed row with retry_count >= max_retry_count, as it
\* is and submits no task for it.
C13_SweepFrame ==
    [][\A n \in SweepLimits :
          retry_failed_files(n) =>
             \A f \in DOMAIN db :
                (db[f].status # "failed" \/ db[f].retry_count >= n) =>
                   /\ f \in DOMAIN db'
                   /\ db'[f] = db[f]
                   /\ \A m \in queue' \ queue : m.file # f]_vars

\* a sweep has just run and passed over a failed row
C13_Witness ==
    /\ last.op = "retry_failed_files"
    /\ last.updates = 0
    /\ \E f \in DOMAIN db : db[f].status = "failed" /\ db[f].retry_count >= 1

\* max_retry_count=3, the default of retry_failed_files
DefaultSweepLimit == 3

\* one file whose pipeline waits time out again and again, and an operator
\* who runs the retry sweep with the default limit
\* the query command on the empty table
FirstQuery(S) ==
    /\ DOMAIN db = {}
    /\ query_and_process_files(S)

InitSweep ==
    /\ Start
    /\ api = {1}
    /\ budget = SweepEvents

NextSweep ==
    \/ \E S \in SUBSET Files : FirstQuery(S)
    \/ \E m \in queue : StartTask(m)
    \/ \E e \in running : ExecutorClaim(e)
    \/ \E e \in running : CollaboratorReturned(e)
    \/ \E e \in running : PipelineBegin(e)
    \/ \E e \in running : PipelineResume(e)
    \/ \E e \in running : PipelineTimeout(e)
    \/ retry_failed_files(DefaultSweepLimit)

SweepSpec == InitSweep /\ [][NextSweep]_vars

\* C14: the retry sweep re-activates a file at most max_retry_count times.
C14_BoundedReactivation ==
    \A f \in Files : reactivated[f] <= DefaultSweepLimit

\* a file was re-activated twice, failed again, and the sweep passed over it
C14_Witness ==
    \E f \in DOMAIN db :
        /\ reactivated[f] = 2
        /\ db[f].status = "failed"
        /\ db[f].retry_count >= DefaultSweepLimit
        /\ last.op = "retry_failed_files"
        /\ last.updates = 0

(***************************************************************************)
(* The cleanup command (main.py cleanup_old_files).                        *)
(***************************************************************************)
\* an hour passes
Tick ==
    /\ now < MaxClock
    /\ now' = now + 1
    /\ last' = [NoOp EXCEPT !.op = "tick"]
    /\ UNCHANGED <<db, logs, chunks, queue, running, results, submitted, api, budget,
                   disk, reactivated, probe>>

\* the files os.remove deletes for a row: those its path columns name
RemovedFiles(row) ==
    (IF row.download_path THEN {"download"} ELSE {}) \cup
    (IF row.markdown_path THEN {"markdown"} ELSE {})

\* a cleanup that ignores the age of the rows
cleanup_all_failed(older_than_hours) ==
    LET failed_files == {f \in DOMAIN db : db[f].status = "failed"}
    IN  /\ db' = [f \in DOMAIN db \ failed_files |-> db[f]]
        /\ disk' = [f \in Files |->
               IF f \in failed_files THEN disk[f] \ RemovedFiles(db[f]) ELSE disk[f]]
        /\ last' = [NoOp EXCEPT !.op = "cleanup_failed_files"]
        /\ UNCHANGED <<logs, chunks, queue, running, results, submitted, api, budget,
                       now, reactivated, probe>>

\* ErrorHandler.cleanup_failed_files: delete the failed rows last updated
\* before the cutoff, and the files their path columns name
cleanup_failed_files(older_than_hours) ==
    LET cutoff_time == now - older_than_hours
        failed_files == {f \in DOMAIN db :
                            /\ db[f].status = "failed"
                            /\ db[f].updated_at < cutoff_time}
    IN  /\ db' = [f \in DOMAIN db \ failed_files |-> db[f]]
        /\ disk' = [f \in Files |->
               IF f \in failed_files THEN disk[f] \ RemovedFiles(db[f]) ELSE disk[f]]
        /\ last' = [NoOp EXCEPT !.op = "cleanup_failed_files"]
        /\ UNCHANGED <<logs, chunks, queue, running, results, submitted, api, budget,
                       now, reactivated, probe>>

InitCleanup ==
    /\ Start
    /\ api = Files
    /\ budget = CleanupEvents

NextCleanup ==
    \/ \E S \in SUBSET Files : FirstQuery(S)
    \/ \E m \in queue : StartTask(m)
    \/ \E e \in running : ExecutorClaim(e)
    \/ \E e \in running : CollaboratorReturned(e)
    \/ \E e \in running, error \in CollaboratorErrors : CollaboratorFailed(e, error)
    \/ \E e \in running : PipelineBegin(e)
    \/ \E e \in running : PipelineResume(e)
    \/ \E e \in running : PipelineTimeout(e)
    \/ retry_failed_files(DefaultSweepLimit)
    \/ Tick
    \/ cleanup_failed_files(RetentionHours)

CleanupSpec == InitCleanup /\ [][NextCleanup]_vars

\* the rows a step deletes
Purged == DOMAIN db \ DOMAIN db'

C16_ArtifactsRemoved ==
    [][cleanup_failed_files(RetentionHours) =>
          \A f \in Purged : disk'[f] = {} /\ chunks'[f] = -1]_vars

\* s is an initial part of t
IsPrefix(s, t) ==
    /\ Len(s) <= Len(t)
    /\ \A i \in 1..Len(s) : s[i] = t[i]

\* C20: no step modifies or deletes a log entry: the log of every file, and
\* the system log, only grows.
C20_LogsAppendOnly ==
    [][\A f \in DOMAIN logs :
          f \in DOMAIN logs' /\ IsPrefix(logs[f], logs'[f])]_vars

\* the cleanup has just deleted the row of a file and the file's log is kept
C20_Witness ==
    /\ last.op = "cleanup_failed_files"
    /\ \E f \in Files : f \notin DOMAIN db /\ Len(logs[f]) >= 2

(***************************************************************************)
(* The retry classifier called on its own.                                 *)
(***************************************************************************)
\* exception classes: those of retryable_errors and some that are not
ErrorTypes == RetryableTypes \cup
              {"Exception", "ValueError", "TypeError", "celery.TimeoutError"}

\* str(error).lower() of the errors passed to the classifier
ErrorMessages ==
    {<<"connection", "refused">>, <<"read", "timeout">>,
     <<"network", "unreachable">>, <<"temporary", "failure">>,
     <<"service", "unavailable">>, <<"resource", "unavailable">>,
     <<"internal", "server", "error">>, <<"bad", "gateway">>,
     <<"gateway", "timeout">>, <<"gateway", "error">>,
     <<"unsupported", "format">>, <<"source", "file", "missing">>,
     <<"the", "operation", "timed", "out">>}

\* should_retry = self._should_retry(error, retry_count) and
\* self._calculate_retry_delay(retry_count)
Classify(error, retry_count) ==
    /\ probe' = [error |-> error, retry_count |-> retry_count,
                 should_retry |-> _should_retry(error, retry_count),
                 retry_delay |-> _calculate_retry_delay(retry_count)]
    /\ UNCHANGED <<db, logs, chunks, queue, running, results, submitted, api, budget,
                   last, now, disk, reactivated>>

InitClassifier ==
    /\ Start
    /\ api = {}
    /\ budget = 0

NextClassifier ==
    \E type \in ErrorTypes, msg \in ErrorMessages, retry_count \in 0..MaxAttempts :
        Classify([type |-> type, msg |-> msg], retry_count)

ClassifierSpec == InitClassifier /\ [][NextClassifier]_vars

\* the classifier has been called
Probed == probe # NoProbe

\* C17: the retry delay is min(60 * 2^attempts, 600): 60, 120, 240, 480 for
\* attempts 0, 1, 2, 3 and 600 from 4 on, whatever the error.
C17_BackoffTable ==
    Probed =>
        /\ probe.retry_count = 0 => probe.retry_delay = 60
        /\ probe.retry_count = 1 => probe.retry_delay = 120
        /\ probe.retry_count = 2 => probe.retry_delay = 240
        /\ probe.retry_count = 3 => probe.retry_delay = 480
        /\ probe.retry_count >= 4 => probe.retry_delay = 600
        /\ probe.retry_delay <= 600

\* the delay for a retry_count above 4 is the cap
C17_Witness ==
    Probed /\ probe.retry_count > 4 /\ probe.retry_delay = 600

\* C18: with retry_count >= MAX_RETRIES the classifier answers
\* should_retry = false for every error.
C18_NoRetryAtLimit ==
    (Probed /\ probe.retry_count >= MAX_RETRIES) => ~probe.should_retry

\* a connection error with a retryable message is refused at the limit
C18_Witness ==
    /\ Probed
    /\ probe.retry_count = MAX_RETRIES
    /\ probe.error.type = "requests.ConnectionError"
    /\ Contains(probe.error.msg, <<"connection">>)
    /\ ~probe.should_retry

\* C19: below the limit the classifier answers should_retry = true exactly
\* when the error is of a transient network or service class or its message
\* contains one of the markers timeout, connection, unavailable, gateway.
C19_RetryableExactlyTransient ==
    (Probed /\ probe.retry_count < MAX_RETRIES) =>
        (probe.should_retry <=>
            \/ probe.error.type \in RetryableTypes
            \/ \E marker \in {<<"timeout">>, <<"connection">>,
                              <<"unavailable">>, <<"gateway">>} :
                  Contains(probe.error.msg, marker))

(***************************************************************************)
(* Scheduling of the stage tasks (tasks.py process_single_file).           *)
(***************************************************************************)
\* statuses the row of a file may show when an execution of stage k starts
\* in the fixed order: the done status of stage k - 1 (pending for the
\* download), or what an earlier execution of stage k itself has left
StartsInOrder(k) == {StageOrder[2 * k - 1], InFlight(k), "failed"}

\* C21: an execution of a stage task starts only when the row shows the done
\* status of the preceding stage (or the in-flight or failed status left by
\* an earlier execution of the same stage), so that the executions of one
\* file start in the stage order.
C21_StagesStartInOrder ==
    [][\A e \in running :
          (e.file \in DOMAIN db /\ ExecutorClaim(e)) =>
             db[e.file].status \in StartsInOrder(StageOf(e.task))]_vars

\* C22: no worker slot is held by a task that waits for the result of a
\* stage task it has dispatched.
C22_NoSlotWaitsForTask ==
    \A e \in running : e.pc # "wait"

(***************************************************************************)
(* Loss of the process that executes a task.                               *)
(***************************************************************************)
\* environment events of the executions with process losses
CrashEvents == 3

\* the pool process executing e is killed (hard task_time_limit, a signal,
\* out of memory): no except block runs and nothing is written.  Either the
\* message is acknowledged and a failure result is stored, or - the whole
\* worker being lost before the late acknowledgement - the broker delivers
\* the message again.
WorkerLost(e, redelivered) ==
    /\ e.pc \in {"run", "wait"}
    /\ budget > 0
    /\ running' = running \ {e}
    /\ IF redelivered
       THEN /\ queue' = queue \cup {Redelivered(e)}
            /\ results' = results
       ELSE /\ queue' = queue
            /\ results' = results \cup {e.id}
    /\ budget' = budget - 1
    /\ last' = [NoOp EXCEPT !.op = "worker_lost", !.file = e.file]
    /\ UNCHANGED <<db, logs, chunks, submitted, api, now, disk, reactivated, probe>>

InitCrash ==
    /\ Start
    /\ api = Files
    /\ budget = CrashEvents

NextCrash ==
    \/ \E S \in SUBSET Files : FirstQuery(S)
    \/ \E m \in queue : StartTask(m)
    \/ \E e \in running : ExecutorClaim(e)
    \/ \E e \in running : CollaboratorReturned(e)
    \/ \E e \in running, error \in CollaboratorErrors : CollaboratorFailed(e, error)
    \/ \E e \in running : PipelineBegin(e)
    \/ \E e \in running : PipelineResume(e)
    \/ \E e \in running : PipelineTimeout(e)
    \/ \E e \in running, redelivered \in BOOLEAN : WorkerLost(e, redelivered)
    \/ retry_failed_files(DefaultSweepLimit)

CrashSpec == InitCrash /\ [][NextCrash]_vars

\* the in-flight statuses
InFlightStatuses == {InFlight(k) : k \in 1..5}

\* C23: no file is left at an in-flight status once nothing is queued or
\* running for it: an executor that was lost after its claim is detected and
\* its stage is dispatched again or the file is marked failed.
C23_NoneLeftInFlight ==
    Quiescent => \A f \in DOMAIN db : db[f].status \notin InFlightStatuses

\* a file left at an in-flight status with nothing queued or running stays
\* there whatever the program does next
LeftInFlightStays ==
    [][\A f \in DOMAIN db :
          (Quiescent /\ db[f].status \in InFlightStatuses) =>
             (f \in DOMAIN db' /\ db'[f].status = db[f].status)]_vars

(***************************************************************************)
(* Repeated execution of a stage task.                                     *)
(***************************************************************************)
\* what the stage executors have persisted for file f: the path and count
\* columns of its row, the files on disk and the chunks file
Artifacts(d, dk, ch, f) ==
    [download_path |-> d[f].download_path, markdown_path |-> d[f].markdown_path,
     chunk_count |-> d[f].chunk_count, vector_count |-> d[f].vector_count,
     disk |-> dk[f], chunks |-> ch[f]]

\* the collaborator of stage k returns for file f what it returned to the
\* execution whose output is stored
SameOutput(k, f, out) ==
    /\ k = 3 => out = chunks[f]
    /\ k = 4 => out = db[f].vector_count

\* C24: when a stage task is executed once more for the same message (same
\* file, stage and arguments) and its collaborator returns the same output,
\* neither the claim nor the completion of the second execution changes the
\* persisted artifacts (paths, files, chunks file, counts), and retry_count
\* stays as it was.
C24_SecondExecutionSameArtifact ==
    [][\A e \in running :
          (e.delivery > 0 /\ e.file \in DOMAIN db /\ IsStageTask(e.task)) =>
             /\ ExecutorClaim(e) /\ e.file \in DOMAIN db' =>
                   Artifacts(db', disk', chunks', e.file) = Artifacts(db, disk, chunks, e.file)
             /\ \A out \in 0..MaxChunks :
                   (SameOutput(StageOf(e.task), e.file, out)
                      /\ ExecutorSucceeded(e, out, TRUE)) =>
                      /\ Artifacts(db', disk', chunks', e.file)
                            = Artifacts(db, disk, chunks, e.file)
                      /\ db'[e.file].retry_count = db[e.file].retry_count]_vars

\* a second execution of a chunk_document message has completed
C24_Witness ==
    /\ last.op = "done_again"
    /\ last.file \in DOMAIN db
    /\ db[last.file].status = "chunked"
    /\ chunks[last.file] = MaxChunks

(***************************************************************************)
(* Data handed from stage to stage.                                        *)
(***************************************************************************)
\* messages of first dispatches (.delay) made in the step
Dispatched == {m \in queue' \ queue : m.retries = 0 /\ m.delivery = 0}

\* C25: the pipeline passes to vectorize_chunks exactly the chunks that the
\* chunk stage has produced for the file, and to save_data exactly the
\* vectors that the vectorize stage has produced for it.
C25_StageConsumesPrecedingArtifact ==
    [][\A m \in Dispatched :
          m.file \in DOMAIN db =>
             /\ m.task = "vectorize_chunks" =>
                   m.arg = [kind |-> "chunks", n |-> db[m.file].chunk_count]
             /\ m.task = "save_data" =>
                   m.arg = Vectors(db[m.file].vector_count)]_vars

\* the part of C25 about vectorize_chunks alone
ChunksReachVectorize ==
    [][\A m \in Dispatched :
          (m.file \in DOMAIN db /\ m.task = "vectorize_chunks") =>
             m.arg = [kind |-> "chunks", n |-> db[m.file].chunk_count]]_vars

(***************************************************************************)
(* Direct calls of the status table (database.py).                         *)
(***************************************************************************)
\* calls of the status table in a run of direct calls
StoreCalls == 3

\* DatabaseManager.add_file for a file that has no row
add_file(f) ==
    /\ f \notin DOMAIN db
    /\ db' = AddFiles(db, {f})
    /\ last' = [NoOp EXCEPT !.op = "add_file", !.file = f]
    /\ UNCHANGED <<logs, chunks, queue, running, results, submitted, api, budget,
                   now, disk, reactivated, probe>>

\* error messages passed to update_status
StoreMessages == {NoMessage, Wrapped(1, ConnectionRefused).msg}

\* one call of update_status; commit_ok = FALSE: session.commit() raises
UpdateStatusCall(f, status, error_message, commit_ok) ==
    /\ budget > 0
    /\ LET r == update_status_commit(db, f, status, error_message, NoFields, commit_ok)
       IN  /\ db' = r.db
           /\ last' = [op |-> IF r.raised THEN "update_status_raised" ELSE "update_status",
                       file |-> f,
                       updates |-> IF ~r.raised /\ update_status_ok(db, f) THEN 1 ELSE 0,
                       tlogs |-> 0]
    /\ budget' = budget - 1
    /\ UNCHANGED <<logs, chunks, queue, running, results, submitted, api,
                   now, disk, reactivated, probe>>

InitStore ==
    /\ Start
    /\ api = {}
    /\ budget = StoreCalls

NextStore ==
    \/ \E f \in Files : add_file(f)
    \/ \E f \in Files, status \in Statuses, error_message \in StoreMessages,
          commit_ok \in BOOLEAN : UpdateStatusCall(f, status, error_message, commit_ok)

StoreSpec == InitStore /\ [][NextStore]_vars

\* C26: when session.commit() fails inside update_status, the call raises
\* to its caller and the row's status, retry_count and error_message are
\* what they were before the call.
C26_FailedCommitChangesNothing ==
    [][\A f \in DOMAIN db, status \in Statuses, error_message \in StoreMessages :
          UpdateStatusCall(f, status, error_message, FALSE) =>
             /\ last'.op = "update_status_raised"
             /\ f \in DOMAIN db'
             /\ db'[f].status = db[f].status
             /\ db'[f].retry_count = db[f].retry_count
             /\ db'[f].error_message = db[f].error_message]_vars

\* a call that would have marked a counted, failed row pending has raised
C26_Witness ==
    /\ last.op = "update_status_raised"
    /\ last.file \in DOMAIN db
    /\ db[last.file].status = "failed"
    /\ db[last.file].retry_count = 1

(***************************************************************************)
(* Failed rows.                                                            *)
(***************************************************************************)
\* C27: every failed row has an error message, and the step that makes a
\* row failed is one that stores an error message (it counts an attempt).
C27_FailedHasMessage ==
    /\ [](\A f \in DOMAIN db :
             db[f].status = "failed" => db[f].error_message # NoMessage)
    /\ [][\A f \in Kept :
             (db'[f].status = "failed" /\ db[f].status # "failed") =>
                /\ db'[f].error_message # NoMessage
                /\ db'[f].retry_count > db[f].retry_count]_vars

\* a row failed by the pipeline's wait, with the text of the timeout
C27_Witness ==
    \E f \in DOMAIN db :
       /\ db[f].status = "failed"
       /\ db[f].error_message = GetTimeout.msg
       /\ last.op = "task_failed"

(***************************************************************************)
(* Resuming a file at the stage its row shows.                             *)
(***************************************************************************)
\* C28: process_single_file started for a file whose row shows the done
\* status of stage k (downloaded ... vectorized) dispatches the task of
\* stage k + 1 and no other.
C28_ResumesAtMarker ==
    [][\A e \in running, k \in 1..4 :
          (e.file \in DOMAIN db /\ db[e.file].status = Done(k) /\ PipelineBegin(e)) =>
             {m.task : m \in Dispatched} = {StageTasks[k + 1]}]_vars

\* the part of C28 that the code provides: a downloaded file is converted
ResumesDownloaded ==
    [][\A e \in running :
          (e.file \in DOMAIN db /\ db[e.file].status = Done(1) /\ PipelineBegin(e)) =>
             {m.task : m \in Dispatched} = {StageTasks[2]}]_vars

(***************************************************************************)
(* The two status writes of an executor.                                   *)
(***************************************************************************)
\* C29: an executor writes the in-flight status of its stage before its
\* collaborator acts (or fails the file without calling it); when the
\* collaborator returns it writes the done status, when the collaborator
\* raises it writes failed; an executor whose process is lost between the
\* two writes leaves the row as it is.
C29_ClaimThenOutcome ==
    [][\A e \in running :
          (IsStageTask(e.task) /\ e.file \in DOMAIN db /\ e.file \in DOMAIN db') =>
             LET k == StageOf(e.task)
                 f == e.file
             IN  /\ ExecutorClaim(e) =>
                       \/ /\ db'[f].status = InFlight(k)
                          /\ [e EXCEPT !.pc = "run"] \in running'
                       \/ /\ db'[f].status = "failed"
                          /\ e \notin running'
                 /\ e.pc = "begin" =>
                       /\ ~CollaboratorReturned(e)
                       /\ \A error \in CollaboratorErrors : ~CollaboratorFailed(e, error)
                 /\ CollaboratorReturned(e) => db'[f].status = Done(k)
                 /\ \A error \in CollaboratorErrors :
                       CollaboratorFailed(e, error) => db'[f].status = "failed"
                 /\ \A redelivered \in BOOLEAN :
                       WorkerLost(e, redelivered) => db'[f] = db[f]]_vars

\* an executor was lost after its claim and the row shows the in-flight
\* status
C29_Witness ==
    /\ last.op = "worker_lost"
    /\ last.file \in DOMAIN db
    /\ db[last.file].status \in InFlightStatuses
    /\ \A e \in running : e.file # last.file

(***************************************************************************)
(* The attempt count given to the classifier.                              *)
(***************************************************************************)
\* C30: when a stage fails, handle_task_error gives _should_retry the
\* retry_count that the row stores at that moment - after the executor's
\* except block has marked the file failed.  The task passes
\* self.request.retries.
C30_ClassifierGetsStoredCount ==
    [][\A e \in running, error \in CollaboratorErrors :
          (e.file \in DOMAIN db /\ CollaboratorFailed(e, error)) =>
             LET w == Wrapped(StageOf(e.task), error)
                 d == update_status(db, e.file, "failed", w.msg, NoFields)
             IN  e.retries = d[e.file].retry_count]_vars

\* the same comparison with the count stored before the executor's write
ClassifierGetsCountBeforeFailure ==
    [][\A e \in running, error \in CollaboratorErrors :
          (e.file \in DOMAIN db /\ CollaboratorFailed(e, error)) =>
             e.retries = db[e.file].retry_count]_vars

(***************************************************************************)
(* Errors whose text names the file.                                       *)
(***************************************************************************)
\* file ids, names and paths as the API may give them, in lower case
Identities == {<<"report">>, <<"invoice", "2024">>, <<"network", "plan">>}

\* texts that end with the file's id or path:
\* raise Exception(f"文件状态不存在: {file_id}") and, wrapped by the converter's
\* except block, raise Exception(f"源文件不存在: {file_path}")
IdentityTemplates == {<<"no", "status", "row">>,
                      <<"stage", "failed", "source", "file", "missing">>}

\* the classifier called with the errors that name a file
NextIdentity ==
    \E type \in ErrorTypes, template \in IdentityTemplates, id \in Identities,
       retry_count \in 0..MaxAttempts :
        Classify([type |-> type, msg |-> template \o id], retry_count)

IdentitySpec == InitClassifier /\ [][NextIdentity]_vars

\* C31: the classifier's answers for a failure do not depend on which file
\* failed: the same failure of a file with another id or name, at the same
\* retry_count, gets the same should_retry and the same delay.
C31_DecisionIgnoresIdentity ==
    Probed =>
       \A template \in IdentityTemplates, id \in Identities, other \in Identities :
          probe.error.msg = template \o id =>
             /\ _should_retry([type |-> probe.error.type, msg |-> template \o other],
                              probe.retry_count) = probe.should_retry
             /\ _calculate_retry_delay(probe.retry_count) = probe.retry_delay

(***************************************************************************)
(* Executions of one dispatched stage task.                                *)
(***************************************************************************)
\* the messages and executions that carry delivery dl of the task with id
Carriers(id, dl) ==
    Cardinality({m \in queue : m.id = id /\ m.delivery = dl})
       + Cardinality({e \in running : e.id = id /\ e.delivery = dl})

C33_MissingRowIsNotFound ==
    [][\A f \in Files \ DOMAIN db, status \in Statuses,
          error_message \in StoreMessages, commit_ok \in BOOLEAN :
          UpdateStatusCall(f, status, error_message, commit_ok) =>
             /\ db' = db
             /\ last'.op = "update_status"
             /\ last'.updates = 0]_vars

\* update_status has returned False for a file without a row while another
\* file has one
C33_Witness ==
    /\ last.op = "update_status"
    /\ last.file \in Files \ DOMAIN db
    /\ last.updates = 0
    /\ DOMAIN db # {}

(***************************************************************************)
(* Tasks of one file at a time.                                            *)
(***************************************************************************)
\* pipeline tasks queued or running for file f
PipelinesOf(f) ==
    Cardinality({m \in queue : m.file = f /\ m.task = "process_single_file"})
       + Cardinality({e \in running : e.file = f /\ e.task = "process_single_file"})

\* stage tasks queued (a delayed retry included) or running for file f
StageTasksOf(f) ==
    Cardinality({m \in queue : m.file = f /\ IsStageTask(m.task)})
       + Cardinality({e \in running : e.file = f /\ IsStageTask(e.task)})

\* C34: at most one pipeline task and at most one stage task is queued or
\* running for a file.
C34_OneTaskPerFile ==
    \A f \in Files : PipelinesOf(f) <= 1 /\ StageTasksOf(f) <= 1

\* the part of C34 about the sweep: no row is set pending while a retry of
\* one of its stage tasks is waiting in the queue
SweepSkipsPendingRetry ==
    [][\A n \in SweepLimits, f \in DOMAIN db :
          (retry_failed_files(n) /\ db[f].status = "failed" /\ db'[f].status = "pending") =>
             ~\E m \in queue : m.file = f /\ IsStageTask(m.task) /\ m.retries > 0]_vars

(***************************************************************************)
(* Cleanup with a retention of zero hours.                                 *)
(***************************************************************************)
\* environment events of the runs with an immediate cleanup
PurgeEvents == 2

InitPurge ==
    /\ Start
    /\ api = {1}
    /\ budget = PurgeEvents

\* the worker, the clock, and cleanup_failed_files(0): every failed row
\* updated before the present instant is purged
NextPurge ==
    \/ \E S \in SUBSET Files : FirstQuery(S)
    \/ \E m \in queue : StartTask(m)
    \/ \E e \in running : ExecutorClaim(e)
    \/ \E e \in running : CollaboratorReturned(e)
    \/ \E e \in running, error \in CollaboratorErrors : CollaboratorFailed(e, error)
    \/ \E e \in running : PipelineBegin(e)
    \/ \E e \in running : PipelineResume(e)
    \/ \E e \in running : PipelineTimeout(e)
    \/ Tick
    \/ cleanup_failed_files(0)

PurgeSpec == InitPurge /\ [][NextPurge]_vars

\* C35: cleanup_failed_files deletes no row of a file for which a stage
\* task is running or queued (a delayed retry included).
C35_CleanupSparesActiveFiles ==
    [][\A f \in Purged : StageTasksOf(f) = 0]_vars

(***************************************************************************)
(* One file at a time, every collaborator succeeds.                        *)
(***************************************************************************)
\* queries in the runs without failures
AloneQueries == 2

InitAlone ==
    /\ Start
    /\ api = Files
    /\ budget = AloneQueries

\* a collaborator returns with any output it can produce: the chunker and
\* the embedding service may return an empty list
CollaboratorReturnedAny(e) ==
    \E out \in 0..MaxChunks : ExecutorSucceeded(e, out, TRUE)

\* files are submitted while the worker is idle; no collaborator raises, no
\* wait times out, no acknowledgement is lost
NextAlone ==
    \/ \E S \in SUBSET Files : IdleQuery(S)
    \/ \E m \in queue : StartTask(m)
    \/ \E e \in running : ExecutorClaim(e)
    \/ \E e \in running : CollaboratorReturnedAny(e)
    \/ \E e \in running : PipelineBegin(e)
    \/ \E e \in running : PipelineResume(e)

\* the worker takes every step it can
AloneSpec == InitAlone /\ [][NextAlone]_vars /\ WF_vars(NextAlone)

\* C36: when every collaborator succeeds, the pipeline of a file processed
\* with a free worker ends with the file completed, whatever the
\* collaborators returned.
C36_SuccessMeansCompleted ==
    Quiescent => \A f \in DOMAIN db : db[f].status = "completed"

\* the part of C36 for collaborators that return something: a file whose
\* chunks file and vector count are not empty ends completed
NonEmptyOutputsComplete ==
    Quiescent =>
       \A f \in DOMAIN db :
          (chunks[f] > 0 /\ db[f].vector_count > 0) => db[f].status = "completed"

(***************************************************************************)
(* Statistics (database.py get_statistics).                                *)
(***************************************************************************)
\* the number of rows of table d whose status is in S
CountOf(d, S) == Cardinality({f \in DOMAIN d : d[f].status \in S})

\* DatabaseManager.get_statistics: the counts it returns
get_statistics(d) ==
    [total_files |-> Cardinality(DOMAIN d),
     completed_files |-> CountOf(d, {"completed"}),
     failed_files |-> CountOf(d, {"failed"}),
     pending_files |-> CountOf(d, {"pending"}),
     processing_files |-> CountOf(d, {"downloading", "converting", "chunking",
                                      "vectorizing", "saving"})]

\* C37: the four status counts of get_statistics add up to total_files.
C37_BucketsCoverTotal ==
    LET stats == get_statistics(db)
    IN  stats.total_files = stats.pending_files + stats.processing_files
                               + stats.completed_files + stats.failed_files

(***************************************************************************)
(* Ingestion step by step (file_operations.py query_files).                *)
(***************************************************************************)
\* query tasks and direct status writes in the runs of the ingestion
IngestEvents == 4

\* an INSERT that replaces the row of the same file_id
insert_row_replacing(d, file_id) ==
    [db |-> [f \in DOMAIN d \cup {file_id} |-> IF f = file_id THEN NewRow ELSE d[f]],
     raised |-> FALSE]

\* DatabaseManager.add_file: session.add and commit.  file_id is a unique
\* column, so the commit of a second row for the same file_id raises
\* IntegrityError and stores nothing.
insert_row(d, file_id) ==
    IF file_id \in DOMAIN d
    THEN [db |-> d, raised |-> TRUE]
    ELSE [db |-> AddFiles(d, {file_id}), raised |-> FALSE]

\* query_files.delay(): a query task; the model follows what it does for
\* file f of the list the API returns
SubmitQuery(f) ==
    /\ budget > 0
    /\ f \in api
    /\ queue' = queue \cup
           {Message("query_files", f, PipelineId(f, submitted[f] + 1), NoArg)}
    /\ submitted' = [submitted EXCEPT ![f] = @ + 1]
    /\ budget' = budget - 1
    /\ last' = [NoOp EXCEPT !.op = "query_files", !.file = f]
    /\ UNCHANGED <<db, logs, chunks, running, results, api, now, disk, reactivated, probe>>

\* existing_file = db_manager.get_file_status(file_id): skip the file when it
\* has a row
IngestCheck(e) ==
    /\ e.task = "query_files"
    /\ e.pc = "begin"
    /\ IF e.file \in DOMAIN db
       THEN /\ running' = running \ {e}
            /\ results' = results \cup {e.id}
            /\ last' = [NoOp EXCEPT !.op = "skip", !.file = e.file]
       ELSE /\ running' = (running \ {e}) \cup {[e EXCEPT !.pc = "insert"]}
            /\ results' = results
            /\ last' = [NoOp EXCEPT !.op = "checked", !.file = e.file]
    /\ UNCHANGED <<db, logs, chunks, queue, submitted, api, budget, now, disk,
                   reactivated, probe>>

\* db_manager.add_file(...) after the check; an IntegrityError ends
\* query_files with an exception and the task is retried
IngestInsert(e) ==
    /\ e.task = "query_files"
    /\ e.pc = "insert"
    /\ LET r == insert_row(db, e.file)
       IN  /\ db' = r.db
           /\ running' = running \ {e}
           /\ IF r.raised /\ e.retries < task_max_retries
              THEN /\ queue' = queue \cup {RetryMessage(e, 60)}
                   /\ results' = results
              ELSE /\ queue' = queue
                   /\ results' = results \cup {e.id}
           /\ last' = [NoOp EXCEPT !.op = IF r.raised THEN "integrity_error" ELSE "add_file",
                                   !.file = e.file]
    /\ UNCHANGED <<logs, chunks, submitted, api, budget, now, disk, reactivated, probe>>

InitIngest ==
    /\ Start
    /\ api = Files
    /\ budget = IngestEvents

\* query tasks run side by side while the rows they added are processed
NextIngest ==
    \/ \E f \in Files : SubmitQuery(f)
    \/ \E m \in queue : StartTask(m)
    \/ \E e \in running : IngestCheck(e)
    \/ \E e \in running : IngestInsert(e)
    \/ \E f \in Files, status \in Statuses, error_message \in StoreMessages :
          UpdateStatusCall(f, status, error_message, TRUE)

IngestSpec == InitIngest /\ [][NextIngest]_vars

\* C38: query_files leaves the row of a file that already has one as it is
\* (status, retry_count, paths), whether it skips the file or its insert
\* is refused; a file id has one row at most.
C38_IngestKeepsRows ==
    [][\A e \in running :
          (e.task = "query_files" /\ (IngestCheck(e) \/ IngestInsert(e))) =>
             /\ \A f \in DOMAIN db : f \in DOMAIN db' /\ db'[f] = db[f]
             /\ DOMAIN db' \subseteq DOMAIN db \cup {e.file}]_vars

\* a second query task found no row, another task added it and the file was
\* processed further, and the insert of the second task was refused
C38_Witness ==
    /\ last.op = "integrity_error"
    /\ last.file \in DOMAIN db
    /\ db[last.file].status = "completed"

(***************************************************************************)
(* The synchronous flow (scripts/complete_flow.py).                        *)
(***************************************************************************)
\* runs of the flow and collaborator failures in them
FlowEvents == 3

\* the smallest file id of a set: the next file of the list
FirstOf(S) == CHOOSE f \in S : \A g \in S : f <= g

\* the files of the list that are still to be processed
FilesLeft(S) == [kind |-> "files", n |-> S]

\* the flow turns to the next file of its list, or ends
FlowNextFile(e) ==
    IF e.arg.n = {}
    THEN running' = running \ {e}
    ELSE running' = (running \ {e}) \cup
             {[e EXCEPT !.file = FirstOf(e.arg.n),
                        !.arg = FilesLeft(e.arg.n \ {FirstOf(e.arg.n)}),
                        !.pc = "begin", !.step = 1]}

\* CompleteDocumentFlow.run_complete_flow: query_files, then every file of
\* the returned list in turn, starting with its download
run_complete_flow(S) ==
    /\ S # {}
    /\ S \subseteq api
    /\ budget > 0
    /\ running = {}
    /\ db' = AddFiles(db, S)
    /\ logs' = [logs EXCEPT ![SystemId] = @ \o <<"INFO", "INFO">>]
    /\ running' =
          {[Execution(Message("run_complete_flow", FirstOf(S),
                              PipelineId(FirstOf(S), submitted[FirstOf(S)] + 1),
                              FilesLeft(S \ {FirstOf(S)})))
               EXCEPT !.step = 1]}
    /\ submitted' = [submitted EXCEPT ![FirstOf(S)] = @ + 1]
    /\ budget' = budget - 1
    /\ last' = [NoOp EXCEPT !.op = "run_complete_flow"]
    /\ UNCHANGED <<chunks, queue, results, api, now, disk, reactivated, probe>>

\* _download_file_sync ... _save_data_sync up to the collaborator's call: the
\* wrapper writes the in-flight status, then the executor writes it and logs
FlowClaim(e) ==
    /\ e.task = "run_complete_flow"
    /\ e.pc = "begin"
    /\ db' = update_status(update_status(db, e.file, InFlight(e.step), NoMessage, NoFields),
                           e.file, InFlight(e.step), NoMessage, NoFields)
    /\ logs' = add_log(logs, e.file, "INFO")
    /\ running' = (running \ {e}) \cup {[e EXCEPT !.pc = "run"]}
    /\ last' = [op |-> "flow_claim", file |-> e.file, updates |-> 2, tlogs |-> 1]
    /\ UNCHANGED <<chunks, queue, results, submitted, api, budget, now, disk,
                   reactivated, probe>>

\* the collaborator returned: the executor writes the artifact, the done
\* status and the log, the wrapper writes the done status again; then the
\* next stage, or after save_data the next file
FlowStageDone(e, out) ==
    LET k == e.step
        d1 == update_status(db, e.file, Done(k), NoMessage, DoneFields(k, out))
    IN  /\ e.task = "run_complete_flow"
        /\ e.pc = "run"
        /\ k \in {3, 4} \/ out = 0
        /\ db' = update_status(d1, e.file, Done(k), NoMessage, DoneFields(k, out))
        /\ logs' = add_log(logs, e.file, "INFO")
        /\ chunks' = IF k = 3 THEN [chunks EXCEPT ![e.file] = out] ELSE chunks
        /\ disk' = IF k = 1 THEN [disk EXCEPT ![e.file] = @ \cup {"download"}]
                   ELSE IF k = 2 THEN [disk EXCEPT ![e.file] = @ \cup {"markdown"}]
                   ELSE disk
        /\ IF k < 5
           THEN running' = (running \ {e}) \cup
                    {[e EXCEPT !.pc = "begin", !.step = k + 1]}
           ELSE FlowNextFile(e)
        /\ last' = [op |-> "flow_done", file |-> e.file, updates |-> 2, tlogs |-> 1]
        /\ UNCHANGED <<queue, results, submitted, api, budget, now, reactivated, probe>>

\* the collaborator raised: the executor marks the file failed, logs and
\* raises; the wrapper marks it failed again with str(e); the flow records
\* the failure and turns to the next file
FlowStageFailed(e, error) ==
    LET w == Wrapped(e.step, error)
        d1 == update_status(db, e.file, "failed", w.msg, NoFields)
    IN  /\ e.task = "run_complete_flow"
        /\ e.pc = "run"
        /\ budget > 0
        /\ db' = update_status(d1, e.file, "failed", w.msg, NoFields)
        /\ logs' = add_log(logs, e.file, "ERROR")
        /\ FlowNextFile(e)
        /\ budget' = budget - 1
        /\ last' = [op |-> "flow_failed", file |-> e.file, updates |-> 2, tlogs |-> 1]
        /\ UNCHANGED <<chunks, queue, results, submitted, api, now, disk,
                       reactivated, probe>>

InitFlow ==
    /\ Start
    /\ api = Files
    /\ budget = FlowEvents

NextFlow ==
    \/ \E S \in SUBSET Files : run_complete_flow(S)
    \/ \E e \in running : FlowClaim(e)
    \/ \E e \in running, out \in 0..MaxChunks : FlowStageDone(e, out)
    \/ \E e \in running, error \in CollaboratorErrors : FlowStageFailed(e, error)

FlowSpec == InitFlow /\ [][NextFlow]_vars

\* C39: the flow leaves a completed file completed: it executes no stage
\* for a file of the list whose row is completed.
C39_FlowSkipsCompleted ==
    [][\A f \in Kept : db[f].status = "completed" => db'[f].status = "completed"]_vars

(***************************************************************************)
(* The result of process_single_file.                                      *)
(***************************************************************************)
\* C40: a pipeline task ends with success = True only when the row it has
\* just read shows completed; every other end of the task is the failure
\* result or a retry.
C40_SuccessOnlyWhenCompleted ==
    [][\A e \in running :
          (/\ e.task = "process_single_file"
           /\ PipelineBegin(e) \/ PipelineResume(e)
           /\ \A x \in running' : x.id # e.id) =>
             \/ /\ last'.op = "pipeline_done"
                /\ e.id \in results'
                /\ e.file \in DOMAIN db'
                /\ db'[e.file].status = "completed"
             \/ last'.op = "task_failed"]_vars

\* a pipeline has returned success for a completed file
C40_Witness ==
    /\ last.op = "pipeline_done"
    /\ last.file \in DOMAIN db
    /\ db[last.file].status = "completed"
    /\ PipelineId(last.file, 1) \in results

====
